---- MODULE Spec2Model ----
(***************************************************************************)
(* NEXTHASH-256 v6 (src/NextHash/nexthash256.c, nexthash256.h).            *)
(*                                                                         *)
(* A uint32_t is the pair <<hi, lo>> of its 16-bit halves (TLC's integers  *)
(* are 32-bit signed, so 0 .. 2^32 - 1 does not fit in one of them); all   *)
(* word arithmetic is carried out on the halves and is exact modulo 2^32.  *)
(* A uint8_t is a number in 0 .. 255.  C arrays are sequences: the C index *)
(* i is the TLA+ index i + 1.                                              *)
(***************************************************************************)
EXTENDS Integers, Sequences, FiniteSets, TLC

\* the C array of n elements whose element at TLA+ index i is e(i), as a sequence
\* (the concatenation makes it a tuple of values, not a rule evaluated at each use)
Array(n, e(_)) == [i \in 1..n |-> e(i)] \o <<>>

\* ------------------------------------------------------------------------
\* Word arithmetic
\* ------------------------------------------------------------------------

\* 2^16: the radix of the two halves of a uint32_t
Half == 65536

\* 2^8: the number of values of a uint8_t
Byte == 256

\* x ^ y on 4-bit x and y: XorNib[x + 1][y + 1]
XorNib == <<
    << 0,  1,  2,  3,  4,  5,  6,  7,  8,  9, 10, 11, 12, 13, 14, 15>>,
    << 1,  0,  3,  2,  5,  4,  7,  6,  9,  8, 11, 10, 13, 12, 15, 14>>,
    << 2,  3,  0,  1,  6,  7,  4,  5, 10, 11,  8,  9, 14, 15, 12, 13>>,
    << 3,  2,  1,  0,  7,  6,  5,  4, 11, 10,  9,  8, 15, 14, 13, 12>>,
    << 4,  5,  6,  7,  0,  1,  2,  3, 12, 13, 14, 15,  8,  9, 10, 11>>,
    << 5,  4,  7,  6,  1,  0,  3,  2, 13, 12, 15, 14,  9,  8, 11, 10>>,
    << 6,  7,  4,  5,  2,  3,  0,  1, 14, 15, 12, 13, 10, 11,  8,  9>>,
    << 7,  6,  5,  4,  3,  2,  1,  0, 15, 14, 13, 12, 11, 10,  9,  8>>,
    << 8,  9, 10, 11, 12, 13, 14, 15,  0,  1,  2,  3,  4,  5,  6,  7>>,
    << 9,  8, 11, 10, 13, 12, 15, 14,  1,  0,  3,  2,  5,  4,  7,  6>>,
    <<10, 11,  8,  9, 14, 15, 12, 13,  2,  3,  0,  1,  6,  7,  4,  5>>,
    <<11, 10,  9,  8, 15, 14, 13, 12,  3,  2,  1,  0,  7,  6,  5,  4>>,
    <<12, 13, 14, 15,  8,  9, 10, 11,  4,  5,  6,  7,  0,  1,  2,  3>>,
    <<13, 12, 15, 14,  9,  8, 11, 10,  5,  4,  7,  6,  1,  0,  3,  2>>,
    <<14, 15, 12, 13, 10, 11,  8,  9,  6,  7,  4,  5,  2,  3,  0,  1>>,
    <<15, 14, 13, 12, 11, 10,  9,  8,  7,  6,  5,  4,  3,  2,  1,  0>>
>>

\* x & y on 4-bit x and y: AndNib[x + 1][y + 1]
AndNib == <<
    << 0,  0,  0,  0,  0,  0,  0,  0,  0,  0,  0,  0,  0,  0,  0,  0>>,
    << 0,  1,  0,  1,  0,  1,  0,  1,  0,  1,  0,  1,  0,  1,  0,  1>>,
    << 0,  0,  2,  2,  0,  0,  2,  2,  0,  0,  2,  2,  0,  0,  2,  2>>,
    << 0,  1,  2,  3,  0,  1,  2,  3,  0,  1,  2,  3,  0,  1,  2,  3>>,
    << 0,  0,  0,  0,  4,  4,  4,  4,  0,  0,  0,  0,  4,  4,  4,  4>>,
    << 0,  1,  0,  1,  4,  5,  4,  5,  0,  1,  0,  1,  4,  5,  4,  5>>,
    << 0,  0,  2,  2,  4,  4,  6,  6,  0,  0,  2,  2,  4,  4,  6,  6>>,
    << 0,  1,  2,  3,  4,  5,  6,  7,  0,  1,  2,  3,  4,  5,  6,  7>>,
    << 0,  0,  0,  0,  0,  0,  0,  0,  8,  8,  8,  8,  8,  8,  8,  8>>,
    << 0,  1,  0,  1,  0,  1,  0,  1,  8,  9,  8,  9,  8,  9,  8,  9>>,
    << 0,  0,  2,  2,  0,  0,  2,  2,  8,  8, 10, 10,  8,  8, 10, 10>>,
    << 0,  1,  2,  3,  0,  1,  2,  3,  8,  9, 10, 11,  8,  9, 10, 11>>,
    << 0,  0,  0,  0,  4,  4,  4,  4,  8,  8,  8,  8, 12, 12, 12, 12>>,
    << 0,  1,  0,  1,  4,  5,  4,  5,  8,  9,  8,  9, 12, 13, 12, 13>>,
    << 0,  0,  2,  2,  4,  4,  6,  6,  8,  8, 10, 10, 12, 12, 14, 14>>,
    << 0,  1,  2,  3,  4,  5,  6,  7,  8,  9, 10, 11, 12, 13, 14, 15>>
>>

\* ^ and & on 16-bit numbers, nibble by nibble
Xor16(x, y) ==
    XorNib[x \div 4096 + 1][y \div 4096 + 1] * 4096
    + XorNib[((x \div 256) % 16) + 1][((y \div 256) % 16) + 1] * 256
    + XorNib[((x \div 16) % 16) + 1][((y \div 16) % 16) + 1] * 16
    + XorNib[(x % 16) + 1][(y % 16) + 1]

And16(x, y) ==
    AndNib[x \div 4096 + 1][y \div 4096 + 1] * 4096
    + AndNib[((x \div 256) % 16) + 1][((y \div 256) % 16) + 1] * 256
    + AndNib[((x \div 16) % 16) + 1][((y \div 16) % 16) + 1] * 16
    + AndNib[(x % 16) + 1][(y % 16) + 1]

\* C's ^, &, ~ and + on uint32_t
Xor32(a, b) == <<Xor16(a[1], b[1]), Xor16(a[2], b[2])>>

And32(a, b) == <<And16(a[1], b[1]), And16(a[2], b[2])>>

Not32(a) == <<Half - 1 - a[1], Half - 1 - a[2]>>

Add32(a, b) ==
    LET lo == a[2] + b[2]
    IN  <<(a[1] + b[1] + lo \div Half) % Half, lo % Half>>

\* a + b + c, a + b + c + d and a + b + c + d + e on uint32_t
Add3(a, b, c) ==
    LET lo == a[2] + b[2] + c[2]
    IN  <<(a[1] + b[1] + c[1] + lo \div Half) % Half, lo % Half>>

Add4(a, b, c, d) ==
    LET lo == a[2] + b[2] + c[2] + d[2]
    IN  <<(a[1] + b[1] + c[1] + d[1] + lo \div Half) % Half, lo % Half>>

Add5(a, b, c, d, e) ==
    LET lo == a[2] + b[2] + c[2] + d[2] + e[2]
    IN  <<(a[1] + b[1] + c[1] + d[1] + e[1] + lo \div Half) % Half, lo % Half>>

\* C's x >> n and x << n on uint32_t, 0 < n < 32
Shr32(x, n) ==
    IF n < 16
    THEN <<x[1] \div 2^n, x[2] \div 2^n + (x[1] % 2^n) * 2^(16 - n)>>
    ELSE <<0, x[1] \div 2^(n - 16)>>

Shl32(x, n) ==
    IF n < 16
    THEN <<(x[1] % 2^(16 - n)) * 2^n + x[2] \div 2^(16 - n), (x[2] % 2^(16 - n)) * 2^n>>
    ELSE <<(x[2] % 2^(32 - n)) * 2^(n - 16), 0>>

\* a | b for words with no bit in common (the two shifts of a rotation)
Or32(a, b) == <<a[1] + b[1], a[2] + b[2]>>

\* Right rotation
rotr(x, n) == Or32(Shr32(x, n), Shl32(x, 32 - n))

\* Left rotation
rotl(x, n) == Or32(Shl32(x, n), Shr32(x, 32 - n))

\* the 32-bit product of two 16-bit numbers, as <<hi, lo>>
Mul16(x, y) ==
    LET p1 == x * (y \div Byte)
        p0 == x * (y % Byte)
        lo == (p1 % Byte) * Byte + p0
    IN  <<p1 \div Byte + lo \div Half, lo % Half>>

\* Widening multiplication: high ^ low of 64-bit product
wm_limbs(limb0, t1, s2, h3) ==
    <<Xor16((h3 + (s2 + t1 \div Half) \div Half) % Half, t1 % Half),
      Xor16((s2 + t1 \div Half) % Half, limb0)>>

\* the four 16 x 16 partial products of (uint64_t)a * b, summed by limb
wm_sum(ll, lh, hl, hh) ==
    wm_limbs(ll[2], ll[1] + lh[2] + hl[2], lh[1] + hl[1] + hh[2], hh[1])

widening_mul(a, b) ==
    wm_sum(Mul16(a[2], b[2]), Mul16(a[2], b[1]), Mul16(a[1], b[2]), Mul16(a[1], b[1]))

\* Boolean functions
Ch(x, y, z) == Xor32(And32(x, y), And32(Not32(x), z))

Maj(x, y, z) == Xor32(Xor32(And32(x, y), And32(x, z)), And32(y, z))

\* Sigma functions
Sigma0(x) == Xor32(Xor32(rotr(x, 2), rotr(x, 13)), rotr(x, 22))

Sigma1(x) == Xor32(Xor32(rotr(x, 6), rotr(x, 11)), rotr(x, 25))

sigma0(x) == Xor32(Xor32(rotr(x, 7), rotr(x, 18)), Shr32(x, 3))

sigma1(x) == Xor32(Xor32(rotr(x, 17), rotr(x, 19)), Shr32(x, 10))

\* ------------------------------------------------------------------------
\* Constants
\* ------------------------------------------------------------------------

\* Round constants
K == <<
    <<17034, 12184>>, <<28983, 17553>>, <<46528, 64463>>, <<59829, 56229>>,
    <<14678, 49755>>, <<23025, 4593>>, <<37439, 33444>>, <<43804, 24277>>,
    <<55303, 43672>>, <<4739, 23297>>, <<9265, 34238>>, <<21772, 32195>>,
    <<29374, 23924>>, <<32990, 45566>>, <<39900, 1703>>, <<49563, 61812>>,
    <<58523, 27073>>, <<61374, 18310>>, <<4033, 40390>>, <<9228, 41420>>,
    <<11753, 11375>>, <<19060, 33962>>, <<23728, 43484>>, <<30457, 35034>>,
    <<38974, 20818>>, <<43057, 50797>>, <<45059, 10184>>, <<48985, 32711>>,
    <<50912, 3059>>, <<54695, 37191>>, <<1738, 25425>>, <<5161, 10599>>,
    <<10167, 2693>>, <<11803, 8504>>, <<19756, 28156>>, <<21304, 3347>>,
    <<25866, 29524>>, <<30314, 2747>>, <<33218, 51502>>, <<37490, 11397>>,
    <<41663, 59553>>, <<43034, 26187>>, <<49739, 35696>>, <<51052, 20899>>,
    <<53650, 59417>>, <<54937, 1572>>, <<62478, 13701>>, <<4202, 41072>>,
    <<6564, 49430>>, <<7735, 27656>>, <<10056, 30540>>, <<13488, 48309>>
>>

\* Initial state
H_INIT == <<
    <<27145, 58983>>, <<47975, 44677>>, <<15470, 62322>>, <<42319, 62778>>,
    <<20750, 21119>>, <<39685, 26764>>, <<8067, 55723>>, <<23520, 52505>>,
    <<52155, 40285>>, <<25242, 10538>>, <<37209, 346>>, <<5423, 60632>>,
    <<26419, 9831>>, <<36532, 19079>>, <<56076, 11789>>, <<18357, 18461>>
>>

\* the mask 0x5A5A5A5A of the lower-half temp T3
LowerMask == <<23130, 23130>>

\* the number of rounds of one compression
Rounds == 52

\* the block size in bytes
BlockLen == 64

\* ------------------------------------------------------------------------
\* Message schedule
\* ------------------------------------------------------------------------

\* one pass of the body of "for (i = 16; i < 52; i++)": W holds W[0 .. i-1]
expand_step(W, i) ==
    LET w(j) == W[j + 1]
        linear == Add4(sigma1(w(i-2)), w(i-7), sigma0(w(i-15)), w(i-16))
        nl1 == widening_mul(w(i-3), w(i-10))
        nl2 == widening_mul(w(i-5), w(i-12))
        nl3 == widening_mul(Xor32(w(i-1), w(i-8)),
                            Xor32(w(i-4), w(IF i - 14 < 0 THEN i - 14 + 52 ELSE i - 14)))
    IN  Append(W, Add3(linear, nl1, Xor32(nl2, nl3)))

RECURSIVE expand_loop(_, _)
\* the passes of "for (i = 16; i < 52; i++)" with i < hi, from the loop state
\* r = [W, i]; the range is halved so that the evaluation stays shallow
expand_loop(r, hi) ==
    IF r.i >= hi THEN r
    ELSE IF r.i + 1 = hi THEN [W |-> expand_step(r.W, r.i), i |-> r.i + 1]
    ELSE expand_loop(expand_loop(r, (r.i + hi) \div 2), hi)

expand_message(block) ==
    expand_loop([W |-> Array(16, LAMBDA i : <<block[4*(i-1) + 1] * Byte + block[4*(i-1) + 2],
                                          block[4*(i-1) + 3] * Byte + block[4*(i-1) + 4]>>),
                 i |-> 16], Rounds).W

\* ------------------------------------------------------------------------
\* Round function
\* ------------------------------------------------------------------------

\* "Update state": the sixteen new words from the old state, the temporaries
\* T = <<T1, T2, T3, T4>> and the products M = <<M1, ..., M10>>
round_update(s, T, M) ==
    << Add5(T[1], T[2], M[1], M[5], M[9]),
       Add3(s[1], M[6], M[10]),
       s[2],
       Add3(s[3], M[2], M[7]),
       Add3(s[4], T[1], M[9]),
       Add32(s[5], M[8]),
       s[6],
       Add3(s[7], M[3], M[10]),
       Add4(T[3], T[4], M[1], M[5]),
       Add32(s[9], M[6]),
       s[10],
       Add3(s[11], M[4], M[7]),
       Add3(s[12], T[3], M[9]),
       Add32(s[13], M[8]),
       s[14],
       Add3(s[15], Xor32(Xor32(M[2], M[3]), M[4]), M[10]) >>

\* a .. p are s[1] .. s[16]
nexthash_round(s, W_i, K_i) ==
    round_update(s,
        << Add5(s[8], Sigma1(s[5]), Ch(s[5], s[6], s[7]), K_i, W_i),
           Add32(Sigma0(s[1]), Maj(s[1], s[2], s[3])),
           Add5(s[16], Sigma1(s[13]), Ch(s[13], s[14], s[15]), Xor32(K_i, LowerMask), W_i),
           Add32(Sigma0(s[9]), Maj(s[9], s[10], s[11])) >>,
        << widening_mul(Xor32(s[1], s[9]), Xor32(s[5], s[13])),
           widening_mul(Xor32(s[2], s[10]), Xor32(s[6], s[14])),
           widening_mul(Xor32(s[3], s[11]), Xor32(s[7], s[15])),
           widening_mul(Xor32(s[4], s[12]), Xor32(s[8], s[16])),
           widening_mul(Xor32(s[1], s[13]), Xor32(s[5], s[9])),
           widening_mul(Xor32(s[2], s[14]), Xor32(s[6], s[10])),
           widening_mul(Xor32(s[3], s[15]), Xor32(s[7], s[11])),
           widening_mul(Xor32(s[4], s[16]), Xor32(s[8], s[12])),
           widening_mul(Xor32(s[1], s[16]), Xor32(s[4], s[13])),
           widening_mul(Xor32(s[2], s[15]), Xor32(s[3], s[14])) >>)

\* ------------------------------------------------------------------------
\* Permutation
\* ------------------------------------------------------------------------

full_permutation(state) ==
    << state[1], state[9],  state[2], state[10], state[3], state[11], state[4], state[12],
       state[5], state[13], state[6], state[14], state[7], state[15], state[8], state[16] >>

\* ------------------------------------------------------------------------
\* Compression function
\* ------------------------------------------------------------------------

\* one pass of the body of "for (round_num = 0; round_num < 52; round_num++)"
\* permutes with the "+ 1" forgotten
permutes_early(round_num) == round_num % 4 = 0

\* "Apply permutation every 4 rounds": the test made after round round_num
permutes(round_num) == (round_num + 1) % 4 = 0

permute_after(working, round_num) ==
    IF permutes(round_num) THEN full_permutation(working) ELSE working

round_step(working, W, round_num) ==
    permute_after(nexthash_round(working, W[round_num + 1], K[round_num + 1]), round_num)

RECURSIVE round_loop(_, _)
\* the passes of that loop with round_num < hi, from r = [W, working, round_num]
\* (the locals of compress); halved likewise
round_loop(r, hi) ==
    IF r.round_num >= hi THEN r
    ELSE IF r.round_num + 1 = hi
         THEN [W |-> r.W,
               working |-> round_step(r.working, r.W, r.round_num),
               round_num |-> r.round_num + 1]
    ELSE round_loop(round_loop(r, (r.round_num + hi) \div 2), hi)

\* "state[i] += working[i]"
feed_forward(state, working) == Array(16, LAMBDA i : Add32(state[i], working[i]))

compress(state, block) ==
    feed_forward(state,
        round_loop([W |-> expand_message(block), working |-> state, round_num |-> 0],
                   Rounds).working)

\* ------------------------------------------------------------------------
\* Finalization
\* ------------------------------------------------------------------------

\* First fold: 16 words -> 8 words
first_fold(state) ==
    Array(8, LAMBDA i :
        LET upper == state[i]
            lower == state[i + 8]
            ul == Xor32(upper, lower)
        IN  Add5(ul,
                 widening_mul(upper, rotl(lower, 13)),
                 widening_mul(lower, rotr(upper, 7)),
                 widening_mul(ul, Xor32(rotr(upper, 3), rotl(lower, 11))),
                 rotr(ul, i)))

\* one round of final mixing
final_mix(folded) ==
    Array(8, LAMBDA i :
        LET fo(j) == folded[((i - 1 + j) % 8) + 1]
        IN  Add5(fo(0),
                 widening_mul(fo(1), fo(5)),
                 widening_mul(fo(2), fo(6)),
                 rotr(fo(3), 7),
                 rotl(fo(7), 11)))

RECURSIVE mix_loop(_)
\* "Three rounds of final mixing": the loop "for (round = 0; round < 3; round++)"
\* from r = [folded, round]
mix_loop(r) ==
    IF r.round >= 3 THEN r
    ELSE mix_loop([folded |-> final_mix(r.folded), round |-> r.round + 1])

\* Output digest (big-endian): byte k of the 32
word_bytes(folded) ==
    Array(32, LAMBDA k :
        LET w == folded[(k - 1) \div 4 + 1]
            r == (k - 1) % 4
        IN  IF r = 0 THEN w[1] \div Byte
            ELSE IF r = 1 THEN w[1] % Byte
            ELSE IF r = 2 THEN w[2] \div Byte
            ELSE w[2] % Byte)

finalize_hash(state) == word_bytes(mix_loop([folded |-> first_fold(state), round |-> 0]).folded)

\* ------------------------------------------------------------------------
\* Context (nexthash256.h)
\* ------------------------------------------------------------------------

\* a uint64_t is its four 16-bit limbs, most significant first; n is a number
\* below 2^31 here
U64(n) == <<0, 0, n \div Half, n % Half>>

\* + on uint64_t (modulo 2^64)
Add64(a, b) ==
    LET s4 == a[4] + b[4]
        s3 == a[3] + b[3] + s4 \div Half
        s2 == a[2] + b[2] + s3 \div Half
        s1 == a[1] + b[1] + s2 \div Half
    IN  <<s1 % Half, s2 % Half, s3 % Half, s4 % Half>>

\* be_byte with the bytes taken least significant first
be_byte_le(x, k) ==
    LET limb == x[(7 - k) \div 2 + 1]
    IN  IF (7 - k) % 2 = 0 THEN limb \div Byte ELSE limb % Byte

\* (uint8_t)(x >> (56 - 8*k)) for a uint64_t x: byte k of its big-endian form
be_byte(x, k) ==
    LET limb == x[k \div 2 + 1]
    IN  IF k % 2 = 0 THEN limb \div Byte ELSE limb % Byte

\* memcpy(dst + at, src, n) and memset(dst + at, c, n) on byte arrays
memcpy(dst, at, src, n) ==
    Array(Len(dst), LAMBDA i : IF i > at /\ i <= at + n THEN src[i - at] ELSE dst[i])

memset(dst, at, c, n) ==
    Array(Len(dst), LAMBDA i : IF i > at /\ i <= at + n THEN c ELSE dst[i])

\* the bytes of data from C offset n on ("data += n; len -= n")
advance(data, n) == SubSeq(data, n + 1, Len(data))

\* memset(ctx, 0, sizeof(*ctx)) on a nexthash256_ctx
zero_ctx ==
    [state |-> Array(16, LAMBDA i : <<0, 0>>),
     bitcount |-> U64(0),
     buffer |-> Array(BlockLen, LAMBDA i : 0),
     buflen |-> 0]

\* ------------------------------------------------------------------------
\* Public API
\* ------------------------------------------------------------------------

nexthash256_init(ctx) ==
    [ctx EXCEPT !.state = H_INIT, !.bitcount = U64(0), !.buflen = 0]

RECURSIVE block_loop_gt(_)
\* block_loop with the test "len > 64"
block_loop_gt(r) ==
    IF Len(r.data) > BlockLen
    THEN block_loop_gt([state |-> compress(r.state, SubSeq(r.data, 1, BlockLen)),
                        data |-> advance(r.data, BlockLen),
                        calls |-> Append(r.calls, SubSeq(r.data, 1, BlockLen))])
    ELSE r

RECURSIVE block_loop(_)
\* "Process complete blocks": the loop "while (len >= 64)" from the loop state
\* r = [state, data, calls]; calls lists the blocks handed to compress
block_loop(r) ==
    IF Len(r.data) >= BlockLen
    THEN block_loop([state |-> compress(r.state, SubSeq(r.data, 1, BlockLen)),
                     data |-> advance(r.data, BlockLen),
                     calls |-> Append(r.calls, SubSeq(r.data, 1, BlockLen))])
    ELSE r

\* "Buffer remaining bytes", after the loop has ended in r
buffer_rest(ctx, r) ==
    [ctx |-> IF Len(r.data) > 0
             THEN [ctx EXCEPT !.state = r.state,
                              !.buffer = memcpy(@, 0, r.data, Len(r.data)),
                              !.buflen = Len(r.data)]
             ELSE [ctx EXCEPT !.state = r.state],
     calls |-> r.calls]

\* flush_buffer without "data += need; len -= need"
flush_buffer_no_advance(ctx, data, need, buf) ==
    [ctx |-> [ctx EXCEPT !.buffer = buf, !.state = compress(@, buf), !.buflen = 0],
     data |-> data,
     calls |-> <<buf>>,
     returned |-> FALSE]

\* flush_buffer without "ctx->buflen = 0"
flush_buffer_keep(ctx, data, need, buf) ==
    [ctx |-> [ctx EXCEPT !.buffer = buf, !.state = compress(@, buf)],
     data |-> advance(data, need),
     calls |-> <<buf>>,
     returned |-> FALSE]

\* the buffer completed to the block buf and compressed; need bytes are used up
flush_buffer(ctx, data, need, buf) ==
    [ctx |-> [ctx EXCEPT !.buffer = buf, !.state = compress(@, buf), !.buflen = 0],
     data |-> advance(data, need),
     calls |-> <<buf>>,
     returned |-> FALSE]

\* fill_buffer with "ctx->buflen = len" for "ctx->buflen += len"
fill_buffer_set(ctx, data) ==
    IF ctx.buflen > 0
    THEN IF Len(data) < BlockLen - ctx.buflen
         THEN [ctx |-> [ctx EXCEPT !.buffer = memcpy(@, ctx.buflen, data, Len(data)),
                                   !.buflen = Len(data)],
               data |-> <<>>,
               calls |-> <<>>,
               returned |-> TRUE]
         ELSE flush_buffer(ctx, data, BlockLen - ctx.buflen,
                           memcpy(ctx.buffer, ctx.buflen, data, BlockLen - ctx.buflen))
    ELSE [ctx |-> ctx, data |-> data, calls |-> <<>>, returned |-> FALSE]

\* "Fill buffer if partially full": the context, the data left, the blocks
\* handed to compress, and whether the function has returned
fill_buffer(ctx, data) ==
    IF ctx.buflen > 0
    THEN IF Len(data) < BlockLen - ctx.buflen
         THEN [ctx |-> [ctx EXCEPT !.buffer = memcpy(@, ctx.buflen, data, Len(data)),
                                   !.buflen = @ + Len(data)],
               data |-> <<>>,
               calls |-> <<>>,
               returned |-> TRUE]
         ELSE flush_buffer(ctx, data, BlockLen - ctx.buflen,
                           memcpy(ctx.buffer, ctx.buflen, data, BlockLen - ctx.buflen))
    ELSE [ctx |-> ctx, data |-> data, calls |-> <<>>, returned |-> FALSE]

\* nexthash256_update from "Process complete blocks" on, after fill_buffer gave f
update_blocks(f) ==
    IF f.returned
    THEN [ctx |-> f.ctx, calls |-> f.calls]
    ELSE buffer_rest(f.ctx, block_loop([state |-> f.ctx.state, data |-> f.data,
                                        calls |-> f.calls]))

\* the context after the call, and the blocks the call handed to compress
nexthash256_update(ctx, data) ==
    update_blocks(fill_buffer([ctx EXCEPT !.bitcount = Add64(@, U64(Len(data) * 8))],
                              data))

\* the size of the local array pad of nexthash256_final
PadSize == 128

\* a byte of pad that has not been written
Unwritten == 0 - 1

\* final_padlen with the test "buflen <= 56"
final_padlen_le(buflen) == IF buflen <= 56 THEN 56 - buflen ELSE 120 - buflen

\* final_padlen with 119 for 120
final_padlen_119(buflen) == IF buflen < 56 THEN 56 - buflen ELSE 119 - buflen

\* "Pad to 56 bytes mod 64"
final_padlen(buflen) == IF buflen < 56 THEN 56 - buflen ELSE 120 - buflen

\* pad after "pad[0] = 0x80" and the memset of padlen - 1 zeros
pad_zeros(padlen) ==
    memset(Array(PadSize, LAMBDA i : IF i = 1 THEN 128 ELSE Unwritten), 1, 0, padlen - 1)

\* "Append length (big-endian)": the eight bytes of bitcount at pad + padlen
pad_length(pad, padlen, bitcount) ==
    Array(PadSize, LAMBDA i :
        IF i > padlen /\ i <= padlen + 8 THEN be_byte(bitcount, i - padlen - 1)
        ELSE pad[i])

\* pad as nexthash256_final fills it
final_pad(ctx) ==
    pad_length(pad_zeros(final_padlen(ctx.buflen)), final_padlen(ctx.buflen), ctx.bitcount)

\* final_finish clearing the state and the counters, not the buffer
final_finish_keep(padlen, pad, u) ==
    [padlen |-> padlen,
     pad |-> pad,
     fed |-> SubSeq(pad, 1, padlen + 8),
     padded |-> u.ctx,
     calls |-> u.calls,
     digest |-> finalize_hash(u.ctx.state),
     ctx |-> [zero_ctx EXCEPT !.buffer = u.ctx.buffer]]

\* nexthash256_final once padlen and pad are set and nexthash256_update has
\* returned u
final_finish(padlen, pad, u) ==
    [padlen |-> padlen,
     pad |-> pad,
     fed |-> SubSeq(pad, 1, padlen + 8),
     padded |-> u.ctx,
     calls |-> u.calls,
     digest |-> finalize_hash(u.ctx.state),
     ctx |-> zero_ctx]

\* nexthash256_final once padlen and pad are set
final_update(ctx, padlen, pad) ==
    final_finish(padlen, pad, nexthash256_update(ctx, SubSeq(pad, 1, padlen + 8)))

\* the context and digest after the call; padlen, pad, fed (the bytes handed to
\* nexthash256_update), padded (the context when that call returns) and calls
\* (the blocks it handed to compress) record the call's steps
nexthash256_final(ctx) ==
    final_update(ctx, final_padlen(ctx.buflen), final_pad(ctx))

\* the value of the bytes of a context that were never written
StaleByte == 165

\* a nexthash256_ctx as a caller declares it, its bytes not yet set
stack_ctx ==
    [state |-> Array(16, LAMBDA i : <<StaleByte, StaleByte>>),
     bitcount |-> U64(StaleByte),
     buffer |-> Array(BlockLen, LAMBDA i : StaleByte),
     buflen |-> StaleByte]

\* nexthash256 after nexthash256_update has returned u
oneshot_final(u, f) == [calls |-> u.calls \o f.calls, digest |-> f.digest]

oneshot_update(u) == oneshot_final(u, nexthash256_final(u.ctx))

\* the digest and the blocks handed to compress
nexthash256(data) == oneshot_update(nexthash256_update(nexthash256_init(stack_ctx), data))

\* ------------------------------------------------------------------------
\* HMAC-NEXTHASH-256
\* ------------------------------------------------------------------------

\* the bytes memset into k_ipad and k_opad
IPadByte == 54

OPadByte == 92

\* the length of the digest, and of temp_key
DigestLen == 32

\* hmac_key with the test "keylen >= 64"
hmac_key_ge(key) == IF Len(key) >= BlockLen THEN nexthash256(key).digest ELSE key

\* "If key > 64 bytes, hash it": the key (and keylen) used from then on
hmac_key(key) == IF Len(key) > BlockLen THEN nexthash256(key).digest ELSE key

\* "Prepare inner and outer keys": memset(pad, c, 64), then pad[i] ^= key[i] for
\* every i < keylen
hmac_pad(c, key) ==
    Array(BlockLen, LAMBDA i : IF i <= Len(key) THEN Xor16(c, key[i]) ELSE c)

\* "init; update(pad, 64); update(data); final" on the context ctx
hmac_pass(ctx, pad, data) ==
    nexthash256_final(
        nexthash256_update(nexthash256_update(nexthash256_init(ctx), pad).ctx, data).ctx)

\* "Outer hash: H(k_opad || inner_hash)", inner being what the inner pass left
hmac_outer(key, inner) == hmac_pass(inner.ctx, hmac_pad(OPadByte, key), inner.digest).digest

\* "Inner hash: H(k_ipad || data)", and the outer hash after it
hmac_inner(key, data) == hmac_outer(key, hmac_pass(stack_ctx, hmac_pad(IPadByte, key), data))

\* the digest hmac_nexthash256 writes
hmac_nexthash256(key, data) == hmac_inner(hmac_key(key), data)

\* ------------------------------------------------------------------------
\* State: a caller of the streaming API (ctx .. lastop), one activation of
\* compress taken step by step (frame, events, chained), and one activation
\* of hmac_nexthash256 taken step by step (hmac)
\* ------------------------------------------------------------------------

VARIABLES ctx, phase, msg, blocks, digest, fin, lastop, frame, events, chained, hmac

vars == <<ctx, phase, msg, blocks, digest, fin, lastop, frame, events, chained, hmac>>

hashVars == <<ctx, phase, msg, blocks, digest, fin, lastop>>

compressVars == <<frame, events, chained>>

\* the most bytes a caller passes to nexthash256_update in one stream
MaxTotal == 72

\* the most calls of compress that are followed step by step
MaxBlocks == 2

\* the len arguments of nexthash256_update
UpdateLens == {0, 1, 55, 64, 65}

\* the keylen and datalen arguments of hmac_nexthash256
KeyLens == {0, 1, 32, 64, 65, 100}

DataLens == {0, 3, 64}

\* byte p (from 1) of the caller's stream, and of the caller's key
DataByte(p) == (p * 37 + 11) % 251

KeyByte(p) == (p * 29 + 7) % 256

\* the n bytes of the stream after its first "from" bytes
Stream(from, n) == Array(n, LAMBDA i : DataByte(from + i))

KeyBytes(n) == Array(n, LAMBDA i : KeyByte(i))

\* the blocks handed to the compress call that is followed
Blocks == {Stream(0, BlockLen), Stream(5, BlockLen)}

\* n bytes, or n words, that were never written
stale_bytes(n) == Array(n, LAMBDA i : StaleByte)

stale_words(n) == Array(n, LAMBDA i : <<StaleByte, StaleByte>>)

\* fin before any call of nexthash256_final
no_final ==
    [buflen |-> 0, bitcount |-> U64(0), padlen |-> 0, pad |-> <<>>, fed |-> <<>>,
     padded |-> zero_ctx, calls |-> <<>>]

\* the locals of compress outside a call; state is the caller's ctx->state
idle_frame ==
    [pc |-> "idle", state |-> H_INIT, block |-> <<>>, W |-> stale_words(Rounds),
     working |-> stale_words(16), round_num |-> StaleByte]

\* the locals of hmac_nexthash256 outside a call
idle_hmac ==
    [pc |-> "idle", key |-> <<>>, data |-> <<>>, k |-> <<>>,
     k_ipad |-> stale_bytes(BlockLen), k_opad |-> stale_bytes(BlockLen),
     ctx |-> stack_ctx, inner |-> <<>>, digest |-> stale_bytes(DigestLen)]

Init ==
    /\ ctx = nexthash256_init(stack_ctx)
    /\ phase = "absorbing"
    /\ msg = <<>>
    /\ blocks = <<>>
    /\ digest = <<>>
    /\ fin = no_final
    /\ lastop = "init"
    /\ frame = idle_frame
    /\ events = <<>>
    /\ chained = 0
    /\ hmac = idle_hmac

\* ------------------------------------------------------------------------
\* The streaming API
\* ------------------------------------------------------------------------

Update(len) ==
    /\ phase = "absorbing"
    /\ Len(msg) + len <= MaxTotal
    /\ \E u \in {nexthash256_update(ctx, Stream(Len(msg), len))} :
           /\ ctx' = u.ctx
           /\ blocks' = blocks \o u.calls
    /\ msg' = msg \o Stream(Len(msg), len)
    /\ lastop' = IF len = 0 THEN "update0" ELSE "update"
    /\ UNCHANGED <<phase, digest, fin, compressVars, hmac>>

Final ==
    /\ phase = "absorbing"
    /\ \E f \in {nexthash256_final(ctx)} :
           /\ ctx' = f.ctx
           /\ digest' = f.digest
           /\ blocks' = blocks \o f.calls
           /\ fin' = [buflen |-> ctx.buflen, bitcount |-> ctx.bitcount,
                      padlen |-> f.padlen, pad |-> f.pad, fed |-> f.fed,
                      padded |-> f.padded, calls |-> f.calls]
    /\ phase' = "finalized"
    /\ lastop' = "final"
    /\ UNCHANGED <<msg, compressVars, hmac>>

Next ==
    \/ \E len \in UpdateLens : Update(len)
    \/ Final

Spec == Init /\ [][Next]_vars

\* ------------------------------------------------------------------------
\* compress, one step at a time
\* ------------------------------------------------------------------------

\* compress(state, block) is called
Enter(block) ==
    /\ frame.pc = "idle"
    /\ chained < MaxBlocks
    /\ frame' = [frame EXCEPT !.pc = "expand", !.block = block]
    /\ events' = <<>>
    /\ chained' = chained + 1
    /\ UNCHANGED <<hashVars, hmac>>

\* "expand_message(block, W); memcpy(working, state, 64);" and "round_num = 0"
Expand ==
    /\ frame.pc = "expand"
    /\ frame' = [frame EXCEPT !.pc = "loop", !.W = expand_message(frame.block),
                              !.working = frame.state, !.round_num = 0]
    /\ UNCHANGED <<events, chained, hashVars, hmac>>

\* "nexthash_round(working, W[round_num], K[round_num]);"
Round ==
    /\ frame.pc = "loop"
    /\ frame.round_num < Rounds
    /\ \E W_i \in {frame.W[frame.round_num + 1]}, K_i \in {K[frame.round_num + 1]} :
           /\ frame' = [frame EXCEPT !.pc = "after",
                                     !.working = nexthash_round(@, W_i, K_i)]
           /\ events' = Append(events, [op |-> "round", r |-> frame.round_num,
                                        W_i |-> W_i, K_i |-> K_i])
    /\ UNCHANGED <<chained, hashVars, hmac>>

\* "if ((round_num + 1) % 4 == 0) full_permutation(working);" taken, and
\* "round_num++"
Permute ==
    /\ frame.pc = "after"
    /\ permutes(frame.round_num)
    /\ frame' = [frame EXCEPT !.pc = "loop", !.working = full_permutation(@),
                              !.round_num = @ + 1]
    /\ events' = Append(events, [op |-> "perm", r |-> frame.round_num,
                                 W_i |-> <<>>, K_i |-> <<>>])
    /\ UNCHANGED <<chained, hashVars, hmac>>

\* the same test not taken, and "round_num++"
NoPermute ==
    /\ frame.pc = "after"
    /\ ~permutes(frame.round_num)
    /\ frame' = [frame EXCEPT !.pc = "loop", !.round_num = @ + 1]
    /\ UNCHANGED <<events, chained, hashVars, hmac>>

\* "Add working state to original state", and the return
FeedForward ==
    /\ frame.pc = "loop"
    /\ frame.round_num >= Rounds
    /\ frame' = [frame EXCEPT !.pc = "idle",
                              !.state = feed_forward(@, frame.working)]
    /\ events' = Append(events, [op |-> "feed", r |-> frame.round_num,
                                 W_i |-> <<>>, K_i |-> <<>>])
    /\ UNCHANGED <<chained, hashVars, hmac>>

NextCompress ==
    \/ \E block \in Blocks : Enter(block)
    \/ Expand
    \/ Round
    \/ Permute
    \/ NoPermute
    \/ FeedForward

SpecCompress == Init /\ [][NextCompress]_vars

\* ------------------------------------------------------------------------
\* hmac_nexthash256, one statement at a time
\* ------------------------------------------------------------------------

\* hmac_nexthash256(key, keylen, data, datalen, digest) is called
HmacCall(keylen, datalen) ==
    /\ hmac.pc = "idle"
    /\ hmac' = [hmac EXCEPT !.pc = "key", !.key = KeyBytes(keylen),
                            !.data = Stream(0, datalen)]
    /\ UNCHANGED <<hashVars, compressVars>>

\* "If key > 64 bytes, hash it"
HmacKey ==
    /\ hmac.pc = "key"
    /\ hmac' = [hmac EXCEPT !.pc = "pads", !.k = hmac_key(hmac.key)]
    /\ UNCHANGED <<hashVars, compressVars>>

\* "Prepare inner and outer keys"
HmacPads ==
    /\ hmac.pc = "pads"
    /\ hmac' = [hmac EXCEPT !.pc = "inner_init",
                            !.k_ipad = hmac_pad(IPadByte, hmac.k),
                            !.k_opad = hmac_pad(OPadByte, hmac.k)]
    /\ UNCHANGED <<hashVars, compressVars>>

\* "nexthash256_init(&ctx);" of the inner and of the outer hash
HmacInit ==
    /\ hmac.pc \in {"inner_init", "outer_init"}
    /\ hmac' = [hmac EXCEPT !.pc = IF @ = "inner_init" THEN "inner_pad" ELSE "outer_pad",
                            !.ctx = nexthash256_init(@)]
    /\ UNCHANGED <<hashVars, compressVars>>

\* "nexthash256_update(&ctx, k_ipad, 64);"
InnerPad ==
    /\ hmac.pc = "inner_pad"
    /\ hmac' = [hmac EXCEPT !.pc = "inner_data",
                            !.ctx = nexthash256_update(@, hmac.k_ipad).ctx]
    /\ UNCHANGED <<hashVars, compressVars>>

\* "nexthash256_update(&ctx, data, datalen);"
InnerData ==
    /\ hmac.pc = "inner_data"
    /\ hmac' = [hmac EXCEPT !.pc = "inner_final",
                            !.ctx = nexthash256_update(@, hmac.data).ctx]
    /\ UNCHANGED <<hashVars, compressVars>>

\* "nexthash256_final(&ctx, digest);" of the inner hash
InnerFinal ==
    /\ hmac.pc = "inner_final"
    /\ \E f \in {nexthash256_final(hmac.ctx)} :
           hmac' = [hmac EXCEPT !.pc = "outer_init", !.ctx = f.ctx,
                                !.digest = f.digest, !.inner = f.digest]
    /\ UNCHANGED <<hashVars, compressVars>>

\* "nexthash256_update(&ctx, k_opad, 64);"
OuterPad ==
    /\ hmac.pc = "outer_pad"
    /\ hmac' = [hmac EXCEPT !.pc = "outer_data",
                            !.ctx = nexthash256_update(@, hmac.k_opad).ctx]
    /\ UNCHANGED <<hashVars, compressVars>>

\* "nexthash256_update(&ctx, digest, 32);"
OuterData ==
    /\ hmac.pc = "outer_data"
    /\ hmac' = [hmac EXCEPT !.pc = "outer_final",
                            !.ctx = nexthash256_update(@, SubSeq(hmac.digest, 1, DigestLen)).ctx]
    /\ UNCHANGED <<hashVars, compressVars>>

\* "nexthash256_final(&ctx, digest);" of the outer hash, and the return
OuterFinal ==
    /\ hmac.pc = "outer_final"
    /\ \E f \in {nexthash256_final(hmac.ctx)} :
           hmac' = [hmac EXCEPT !.pc = "done", !.ctx = f.ctx, !.digest = f.digest]
    /\ UNCHANGED <<hashVars, compressVars>>

NextHmac ==
    \/ \E keylen \in KeyLens, datalen \in DataLens : HmacCall(keylen, datalen)
    \/ HmacKey
    \/ HmacPads
    \/ HmacInit
    \/ InnerPad
    \/ InnerData
    \/ InnerFinal
    \/ OuterPad
    \/ OuterData
    \/ OuterFinal

SpecHmac == Init /\ [][NextHmac]_vars

\* ------------------------------------------------------------------------
\* Properties of the streaming API (checked under Spec)
\* ------------------------------------------------------------------------

\* C1: when nexthash256_final has returned, the blocks that the updates and
\* the final handed to compress are, in order, the blocks nexthash256 hands to
\* compress for the whole message, and the two digests are equal, however the
\* message was split into update calls (empty ones included).
C1_StreamingEquivalence ==
    phase = "finalized" =>
        \A oneshot \in {nexthash256(msg)} :
            /\ blocks = oneshot.calls
            /\ digest = oneshot.digest

\* a message of 66 bytes (no single update has that length, so it arrived in
\* several parts) has been finalized after two compress calls
C1_Witness == phase = "finalized" /\ Len(msg) = 66 /\ Len(blocks) = 2

\* C2: for a message of L bytes the updates and the final make
\* ceil((L + 9) / 64) compress calls in all, of which the final makes one when
\* buflen < 56 on its entry and two when buflen >= 56.
C2_CompressCount ==
    phase = "finalized" =>
        /\ Len(blocks) = (Len(msg) + 9 + 63) \div 64
        /\ Len(fin.calls) = IF fin.buflen < 56 THEN 1 ELSE 2

C2_Witness == phase = "finalized" /\ fin.buflen >= 56 /\ Len(fin.calls) = 2

\* C3: the eight bytes that follow the 0x80/zero padding are the big-endian
\* form of 8 * (bytes the caller passed to update since init); the padding,
\* although it goes through the same update (which adds it to bitcount), is
\* not counted in them.
C3_LengthSuffix ==
    phase = "finalized" =>
        LET bits == 8 * Len(msg)
        IN  /\ SubSeq(fin.fed, fin.padlen + 1, fin.padlen + 8)
                 = <<0, 0, 0, 0, (bits \div 16777216) % 256, (bits \div 65536) % 256,
                     (bits \div 256) % 256, bits % 256>>
            /\ Len(fin.fed) = fin.padlen + 8

\* a message of 65 bytes (520 bits: two non-zero length bytes) is finalized,
\* and the padding did change the context's bitcount
C3_Witness ==
    phase = "finalized" /\ Len(msg) = 65 /\ fin.padded.bitcount # fin.bitcount

\* C4: a step that is nexthash256_update with len = 0 leaves the context
\* (state, bitcount, buflen, buffer) as it was and hands no block to compress;
\* the context being the same, so is every digest computed from it later.
C4_EmptyUpdateNoOp ==
    [][lastop' = "update0" => (ctx' = ctx /\ blocks' = blocks /\ msg' = msg)]_vars

\* an empty update has been made on a context with bytes in its buffer and
\* blocks already compressed
C4_Witness == lastop = "update0" /\ ctx.buflen > 0 /\ Len(blocks) > 0

\* C5: when nexthash256_final has returned, the sixteen state words, the 64
\* buffer bytes, bitcount and buflen are all zero, and the digest is the one
\* computed from the state the padding left, which was not yet zeroed.
C5_FinalHygiene ==
    phase = "finalized" =>
        /\ Len(ctx.state) = 16 /\ \A i \in 1..16 : ctx.state[i] = <<0, 0>>
        /\ Len(ctx.buffer) = 64 /\ \A i \in 1..64 : ctx.buffer[i] = 0
        /\ ctx.bitcount = <<0, 0, 0, 0>>
        /\ ctx.buflen = 0
        /\ digest = finalize_hash(fin.padded.state)
        /\ fin.padded.state # ctx.state

C5_Witness ==
    phase = "finalized" /\ Len(blocks) >= 2 /\ fin.padded.buffer # ctx.buffer

\* C6: whenever nexthash256_update has returned, buflen is in 0 .. 63 and is
\* the number of bytes absorbed since init modulo 64; this holds for the
\* caller's updates and for the update nexthash256_final makes for the padding.
C6_BuflenInvariant ==
    /\ ctx.buflen \in 0..63
    /\ phase = "absorbing" => ctx.buflen = Len(msg) % 64
    /\ phase = "finalized" =>
           /\ fin.buflen = Len(msg) % 64
           /\ fin.padded.buflen \in 0..63
           /\ fin.padded.buflen = (Len(msg) + Len(fin.fed)) % 64

C6_Witness ==
    phase = "finalized" /\ Len(msg) > 64 /\ fin.buflen > 0 /\ fin.padded.buflen = 0

\* C8, as stated: padlen is the smallest non-negative n with
\* (buflen + n) congruent to 56 modulo 64.
C8_SmallestNonNegative ==
    phase = "finalized" =>
        /\ (fin.buflen + fin.padlen) % 64 = 56
        /\ \A n \in 0..(fin.padlen - 1) : (fin.buflen + n) % 64 # 56

\* C8, amended: for every buflen in 0 .. 63 on entry to nexthash256_final,
\* padlen (56 - buflen if buflen < 56, else 120 - buflen) is the smallest
\* positive n with (buflen + n) congruent to 56 modulo 64.
C8_SmallestPositive ==
    phase = "finalized" =>
        /\ fin.buflen \in 0..63
        /\ fin.padlen = IF fin.buflen < 56 THEN 56 - fin.buflen ELSE 120 - fin.buflen
        /\ fin.padlen >= 1
        /\ (fin.buflen + fin.padlen) % 64 = 56
        /\ \A n \in 1..(fin.padlen - 1) : (fin.buflen + n) % 64 # 56

\* the final was entered with 56 bytes buffered: 64 bytes of padding
C8_Witness == phase = "finalized" /\ fin.buflen = 56 /\ fin.padlen = 64

\* C10: nexthash256_final computes padlen in 1 .. 64, so padlen - 1 does not
\* wrap; the bytes of pad that are written are those at C indices
\* 0 .. padlen + 7, none above 71; and the padlen + 8 bytes handed to update
\* have all been written.
C10_PadSafety ==
    phase = "finalized" =>
        /\ fin.padlen \in 1..64
        /\ fin.padlen - 1 >= 0
        /\ fin.padlen + 7 <= 71
        /\ Len(fin.pad) = PadSize
        /\ \A i \in 1..PadSize : (fin.pad[i] # Unwritten) <=> (i <= fin.padlen + 8)
        /\ Len(fin.fed) = fin.padlen + 8
        /\ \A i \in 1..Len(fin.fed) : fin.fed[i] \in 0..255

\* the longest padding: the byte of pad at C index 71 is written
C10_Witness == phase = "finalized" /\ fin.padlen = 64 /\ fin.pad[72] # Unwritten

\* ------------------------------------------------------------------------
\* Properties of compress (checked under SpecCompress)
\* ------------------------------------------------------------------------

\* C9: in one compress call the rounds run in the order 0 .. 51, round r being
\* given W[r] and K[r]; full_permutation comes right after round r exactly
\* when (r + 1) % 4 = 0 (after rounds 3, 7, ..., 51), 13 times in all, and the
\* last of them is the last step before the feed-forward addition.
C9_RoundSchedule ==
    /\ \A n \in 1..Len(events) :
           LET q == (n - 1) \div 5
               j == (n - 1) % 5
           IN  IF n = 66 THEN events[n].op = "feed"
               ELSE IF j < 4 THEN events[n].op = "round" /\ events[n].r = 4 * q + j
               ELSE events[n].op = "perm" /\ events[n].r = 4 * q + 3
    /\ Len(events) > 0 =>
           \A W \in {expand_message(frame.block)} :
               \A n \in 1..Len(events) :
                   events[n].op = "round" =>
                       /\ events[n].W_i = W[events[n].r + 1]
                       /\ events[n].K_i = K[events[n].r + 1]
    /\ frame.pc = "idle" /\ chained > 0 =>
           /\ Len(events) = 66
           /\ events[65].op = "perm" /\ events[65].r = 51
           /\ Cardinality({n \in 1..66 : events[n].op = "perm"}) = 13
           /\ Cardinality({n \in 1..66 : events[n].op = "round"}) = 52

\* a second, chained compress call has returned
C9_Witness == frame.pc = "idle" /\ chained >= 2 /\ Len(events) = 66

\* ------------------------------------------------------------------------
\* Properties of hmac_nexthash256 (checked under SpecHmac)
\* ------------------------------------------------------------------------

\* C7: the digest of hmac_nexthash256(K, M) is H((K' ^ 0x5C..) || H((K' ^ 0x36..) || M))
\* where K' is K, or H(K) when K is longer than 64 bytes, followed by zeros up
\* to 64 bytes; the inner digest, made by two updates, is the one-shot hash of
\* the concatenation; and for K longer than 64 bytes the digest is that of
\* hmac_nexthash256(H(K), M).
C7_MacStructure ==
    hmac.pc = "done" =>
        \A HK \in {IF Len(hmac.key) <= 64 THEN hmac.key ELSE nexthash256(hmac.key).digest} :
            LET Kp == [i \in 1..64 |-> IF i <= Len(HK) THEN HK[i] ELSE 0]
                ipad == [i \in 1..64 |-> Xor16(Kp[i], 54)]
                opad == [i \in 1..64 |-> Xor16(Kp[i], 92)]
            IN  /\ hmac.inner = nexthash256(ipad \o hmac.data).digest
                /\ hmac.digest = nexthash256(opad \o hmac.inner).digest
                /\ Len(hmac.key) > 64 => hmac.digest = hmac_nexthash256(HK, hmac.data)

\* a call with a key longer than a block and a message that is not empty has
\* returned
C7_Witness == hmac.pc = "done" /\ Len(hmac.key) > 64 /\ Len(hmac.data) > 0

====
